---------------------------- MODULE Spec2Model ----------------------------
(***************************************************************************)
(* Model of the warp users service of src/src/main.rs: the filter chain    *)
(* filters::users (routing to list_users, create_user and metrics), the    *)
(* handlers working on the shared State = Arc<Mutex<Vec<User>>>, and the    *)
(* warp::log::custom(record_metrics) hook that feeds the three instruments *)
(* of METERS.  Every request is a process; its steps are the points at     *)
(* which the code touches state shared with other requests.                *)
(***************************************************************************)
EXTENDS Integers, Sequences, FiniteSets, TLC

\* Number of requests served in one behaviour.
MaxReq == 3

\* Requests (connections accepted by warp::serve).
Reqs == 1 .. MaxReq

\* warp::body::content_length_limit(1024 * 16)
BodyLimit == 16384

\* ------------------------------------------------------------------------
\* models

\* enum Gender, with the camelCase tags serde reads and writes.
GenderTags == [female |-> "Female", male |-> "Male", unspecified |-> "Unspecified"]

\* The tag serde writes for a Gender variant (rename_all = "camelCase").
GenderTag(g) == CHOOSE t \in DOMAIN GenderTags : GenderTags[t] = g

\* A deserializer that stores an unknown gender tag as Unspecified.
DeserializeUserDefaultGender(json) ==
    IF ~json.wellformed THEN [ok |-> FALSE, user |-> <<>>]
    ELSE IF ~({"id", "lastName", "gender"} \subseteq DOMAIN json.obj)
        THEN [ok |-> FALSE, user |-> <<>>]
    ELSE [ok |-> TRUE,
          user |-> [id |-> json.obj.id,
                    first_name |-> IF "firstName" \in DOMAIN json.obj
                                   THEN <<json.obj.firstName>> ELSE <<>>,
                    last_name |-> json.obj.lastName,
                    gender |-> IF json.obj.gender \in DOMAIN GenderTags
                               THEN GenderTags[json.obj.gender]
                               ELSE "Unspecified"]]

\* Deserialize for struct User.  A JSON text is [wellformed, len, obj]; obj is
\* the object's fields.  Option<String> is <<>> (None) or <<s>> (Some(s)).
DeserializeUser(json) ==
    IF ~json.wellformed THEN [ok |-> FALSE, user |-> <<>>]
    ELSE IF ~({"id", "lastName", "gender"} \subseteq DOMAIN json.obj)
        THEN [ok |-> FALSE, user |-> <<>>]
    ELSE IF json.obj.gender \notin DOMAIN GenderTags
        THEN [ok |-> FALSE, user |-> <<>>]
    ELSE [ok |-> TRUE,
          user |-> [id |-> json.obj.id,
                    first_name |-> IF "firstName" \in DOMAIN json.obj
                                   THEN <<json.obj.firstName>> ELSE <<>>,
                    last_name |-> json.obj.lastName,
                    gender |-> GenderTags[json.obj.gender]]]

\* Serialize for struct User: camelCase names, firstName skipped when None.
SerializeUser(u) ==
    IF u.first_name = <<>>
    THEN [id |-> u.id, lastName |-> u.last_name, gender |-> GenderTag(u.gender)]
    ELSE [id |-> u.id, firstName |-> u.first_name[1], lastName |-> u.last_name,
          gender |-> GenderTag(u.gender)]

\* init_state(): Arc::new(Mutex::new(Vec::new()))
init_state == <<>>

\* A push that inserts at the head instead of the tail.
PushFront(v, u) == <<u>> \o v

\* A push that skips a record whose id is already stored.
PushUnique(v, u) ==
    IF \E i \in 1 .. Len(v) : v[i].id = u.id THEN v ELSE Append(v, u)

\* Vec::push
Push(v, u) == Append(v, u)

\* Vec::clone
Clone(v) == v

\* ------------------------------------------------------------------------
\* request inputs

Methods == {"GET", "POST", "PUT"}

Paths == {"/users", "/metrics", "/widgets"}

NoBody == [wellformed |-> FALSE, len |-> 0, obj |-> [none |-> TRUE]]

\* The body of tests::create_user.
JaneBody == [wellformed |-> TRUE, len |-> 140,
             obj |-> [firstName |-> "Jane", lastName |-> "Doe",
                      gender |-> "female", id |-> 123]]

\* A second record with the same id and no firstName.
RoeBody == [wellformed |-> TRUE, len |-> 60,
            obj |-> [lastName |-> "Roe", gender |-> "unspecified", id |-> 123]]

AlienBody == [wellformed |-> TRUE, len |-> 60,
              obj |-> [lastName |-> "Doe", gender |-> "alien", id |-> 5]]

NoLastNameBody == [wellformed |-> TRUE, len |-> 40,
                   obj |-> [gender |-> "male", id |-> 5]]

MalformedBody == [wellformed |-> FALSE, len |-> 10, obj |-> [none |-> TRUE]]

OversizedBody == [wellformed |-> TRUE, len |-> BodyLimit + 1,
                  obj |-> [lastName |-> "Doe", gender |-> "female", id |-> 9]]

PostBodies == {JaneBody, RoeBody, AlienBody, NoLastNameBody, MalformedBody,
               OversizedBody}

\* Bodies a request may carry: only POST /users reads its body.
BodiesFor(m, p) == IF m = "POST" /\ p = "/users" THEN PostBodies ELSE {NoBody}

\* Info::elapsed() of a completed request, in microseconds.
Elapsed == {400, 100000}

\* ------------------------------------------------------------------------
\* filters

\* A filter's outcome: the handler it extracts for, or the rejection's status.
Accept(h) == [ok |-> TRUE, handler |-> h, status |-> 0]

Reject(code) == [ok |-> FALSE, handler |-> "rejection", status |-> code]

\* json_body(): content_length_limit(1024 * 16).and(body::json())
json_body(b) ==
    IF b.len > BodyLimit THEN Reject(413)
    ELSE IF ~DeserializeUser(b).ok THEN Reject(400)
    ELSE Accept("json")

\* filters::list_users: path!("users").and(get()).and(with_state).and_then(..)
list_users_filter(m, p, b) ==
    IF p # "/users" THEN Reject(404)
    ELSE IF m # "GET" THEN Reject(405)
    ELSE Accept("list_users")

\* filters::create_user: path!("users").and(post()).and(json_body())...
create_user_filter(m, p, b) ==
    IF p # "/users" THEN Reject(404)
    ELSE IF m # "POST" THEN Reject(405)
    ELSE IF ~json_body(b).ok THEN json_body(b)
    ELSE Accept("create_user")

\* filters::metrics: path!("metrics").and(get()).and(with_exporter(..))...
metrics_filter(m, p, b) ==
    IF p # "/metrics" THEN Reject(404)
    ELSE IF m # "GET" THEN Reject(405)
    ELSE Accept("metrics")

\* a.or(b): the first filter that accepts; of two rejections the one warp
\* prefers (anything over 404, anything else over 405, else the larger code).
Or(a, b) ==
    IF a.ok THEN a
    ELSE IF b.ok THEN b
    ELSE IF b.status = 404 THEN a
    ELSE IF a.status = 404 THEN b
    ELSE IF b.status = 405 THEN a
    ELSE IF a.status = 405 THEN b
    ELSE IF a.status < b.status THEN b
    ELSE a

\* filters::users: list_users(..).or(create_user(..)).or(metrics(..))
users_filter(m, p, b) ==
    Or(Or(list_users_filter(m, p, b), create_user_filter(m, p, b)),
       metrics_filter(m, p, b))

\* ------------------------------------------------------------------------
\* observability

\* with_default_histogram_boundaries(vec![0.005, 0.01, ..., 10.]), in
\* thousandths of the instrument's unit.
Boundaries == <<5, 10, 25, 50, 100, 250, 500, 1000, 2500, 5000, 10000>>

\* The label set of incoming_requests.add(1, &[]).
NoLabels == <<>>

\* Duration::as_millis() as u64, of a duration in microseconds.
as_millis(d) == d \div 1000

\* A conversion that labels an unrecognized method "unknown" instead of
\* failing.
try_from_unknown_method(info) ==
    LET s == info.status
        family == IF s >= 500 /\ s <= 599 THEN "500"
                  ELSE IF s >= 400 /\ s <= 499 THEN "400"
                  ELSE IF s >= 300 /\ s <= 399 THEN "300"
                  ELSE IF s >= 200 /\ s <= 299 THEN "200"
                  ELSE IF s >= 100 /\ s <= 199 THEN "100"
                  ELSE "Err"
        method == IF info.method = "GET" THEN "GET"
                  ELSE IF info.method = "POST" THEN "POST"
                  ELSE "unknown"
        path == IF info.path = "/users" THEN "/users" ELSE "invalid"
    IN  IF family = "Err" THEN [ok |-> FALSE, err |-> "unknown status code"]
        ELSE [ok |-> TRUE,
              duration_ms |-> as_millis(info.elapsed),
              status_family |-> family,
              method |-> method,
              path |-> path]

\* A conversion that keeps the raw request path as the path label.
try_from_raw_path(info) ==
    LET s == info.status
        family == IF s >= 500 /\ s <= 599 THEN "500"
                  ELSE IF s >= 400 /\ s <= 499 THEN "400"
                  ELSE IF s >= 300 /\ s <= 399 THEN "300"
                  ELSE IF s >= 200 /\ s <= 299 THEN "200"
                  ELSE IF s >= 100 /\ s <= 199 THEN "100"
                  ELSE "Err"
        method == IF info.method = "GET" THEN "GET"
                  ELSE IF info.method = "POST" THEN "POST"
                  ELSE "Err"
    IN  IF family = "Err" THEN [ok |-> FALSE, err |-> "unknown status code"]
        ELSE IF method = "Err" THEN [ok |-> FALSE, err |-> "unknown http method"]
        ELSE [ok |-> TRUE,
              duration_ms |-> as_millis(info.elapsed),
              status_family |-> family,
              method |-> method,
              path |-> info.path]

\* A conversion whose status bins leave out their upper ends.
try_from_open_bins(info) ==
    LET s == info.status
        family == IF s >= 500 /\ s < 599 THEN "500"
                  ELSE IF s >= 400 /\ s < 499 THEN "400"
                  ELSE IF s >= 300 /\ s < 399 THEN "300"
                  ELSE IF s >= 200 /\ s < 299 THEN "200"
                  ELSE IF s >= 100 /\ s < 199 THEN "100"
                  ELSE "Err"
        method == IF info.method = "GET" THEN "GET"
                  ELSE IF info.method = "POST" THEN "POST"
                  ELSE "Err"
        path == IF info.path = "/users" THEN "/users" ELSE "invalid"
    IN  IF family = "Err" THEN [ok |-> FALSE, err |-> "unknown status code"]
        ELSE IF method = "Err" THEN [ok |-> FALSE, err |-> "unknown http method"]
        ELSE [ok |-> TRUE,
              duration_ms |-> as_millis(info.elapsed),
              status_family |-> family,
              method |-> method,
              path |-> path]

\* TryFrom<&Info> for ServiceMetrics
try_from(info) ==
    LET s == info.status
        family == IF s >= 500 /\ s <= 599 THEN "500"
                  ELSE IF s >= 400 /\ s <= 499 THEN "400"
                  ELSE IF s >= 300 /\ s <= 399 THEN "300"
                  ELSE IF s >= 200 /\ s <= 299 THEN "200"
                  ELSE IF s >= 100 /\ s <= 199 THEN "100"
                  ELSE "Err"
        method == IF info.method = "GET" THEN "GET"
                  ELSE IF info.method = "POST" THEN "POST"
                  ELSE "Err"
        path == IF info.path = "/users" THEN "/users" ELSE "invalid"
    IN  IF family = "Err" THEN [ok |-> FALSE, err |-> "unknown status code"]
        ELSE IF method = "Err" THEN [ok |-> FALSE, err |-> "unknown http method"]
        ELSE [ok |-> TRUE,
              duration_ms |-> as_millis(info.elapsed),
              status_family |-> family,
              method |-> method,
              path |-> path]

\* ServiceMetrics::duration_labels
duration_labels(sm) ==
    [http_status_code |-> sm.status_family, http_method |-> sm.method,
     http_target |-> sm.path]

\* ServiceMetrics::status_code_labels
status_code_labels(sm) ==
    [http_status_code |-> sm.status_family, http_method |-> sm.method]

\* An add that stores the increment instead of adding it.
CounterSet(c, n, labels) ==
    IF labels \in DOMAIN c THEN [c EXCEPT ![labels] = n]
    ELSE c @@ (labels :> n)

\* Counter<u64>::add(n, labels) on the counter's label-set -> value map.
CounterAdd(c, n, labels) ==
    IF labels \in DOMAIN c THEN [c EXCEPT ![labels] = @ + n]
    ELSE c @@ (labels :> n)

\* The histogram bucket of a recorded value: the first boundary above it,
\* the overflow bucket when there is none.
BucketOf(v) ==
    IF \E i \in 1 .. Len(Boundaries) : v * 1000 < Boundaries[i]
    THEN CHOOSE i \in 1 .. Len(Boundaries) :
            /\ v * 1000 < Boundaries[i]
            /\ \A j \in 1 .. (i - 1) : ~(v * 1000 < Boundaries[j])
    ELSE Len(Boundaries) + 1

\* A fresh histogram aggregator.
NewHistogram == [count |-> 0, sum |-> 0,
                 buckets |-> [i \in 1 .. (Len(Boundaries) + 1) |-> 0]]

\* An update that keeps the last value as the sum.
HistogramUpdateLastSum(h, v) ==
    [count |-> h.count + 1, sum |-> v,
     buckets |-> [h.buckets EXCEPT ![BucketOf(v)] = @ + 1]]

\* The histogram aggregator's update with one value.
HistogramUpdate(h, v) ==
    [count |-> h.count + 1, sum |-> h.sum + v,
     buckets |-> [h.buckets EXCEPT ![BucketOf(v)] = @ + 1]]

\* A record that starts a fresh histogram on every value (a last-value
\* aggregation).
ValueRecorderLast(d, v, labels) ==
    IF labels \in DOMAIN d
    THEN [d EXCEPT ![labels] = HistogramUpdate(NewHistogram, v)]
    ELSE d @@ (labels :> HistogramUpdate(NewHistogram, v))

\* ValueRecorder<u64>::record(v, labels) on the label-set -> histogram map.
ValueRecorderRecord(d, v, labels) ==
    IF labels \in DOMAIN d THEN [d EXCEPT ![labels] = HistogramUpdate(@, v)]
    ELSE d @@ (labels :> HistogramUpdate(NewHistogram, v))

\* prometheus::TextEncoder::encode of one histogram: cumulative le-buckets
\* (the last is +Inf), _sum and _count.
EncodeHistogram(h) ==
    LET cum[i \in 0 .. Len(h.buckets)] ==
            IF i = 0 THEN 0 ELSE cum[i - 1] + h.buckets[i]
    IN  [bucket |-> [i \in 1 .. Len(h.buckets) |-> cum[i]],
         sum |-> h.sum, count |-> h.count]

\* TextEncoder::encode(&metric_families, &mut buf): one sample per label set.
Encode(families) ==
    [incoming_requests |-> families.incoming_requests,
     status_codes |-> families.status_codes,
     http_server_duration |->
        [k \in DOMAIN families.duration |-> EncodeHistogram(families.duration[k])]]

\* ------------------------------------------------------------------------
\* state

VARIABLES
    users,              \* the Vec<User> inside State
    guard,              \* the request holding the tokio Mutex, 0 when free
    waiters,            \* the requests queued on the Mutex, first come first
    provider,           \* the exporter whose meter provider is the global one
    meters,             \* the exporter METERS is bound to, 0 before first use
    incoming_requests,  \* METERS.incoming_requests: label set -> count
    duration,           \* METERS.duration: label set -> histogram
    status_codes,       \* METERS.status_codes: label set -> count
    req                 \* the requests: position, input, locals, response

vars == <<users, guard, waiters, provider, meters, incoming_requests, duration,
          status_codes, req>>

registry == <<incoming_requests, duration, status_codes>>

\* A request warp has not accepted yet.
IdleReq ==
    [pc |-> "idle", method |-> "", path |-> "", body |-> NoBody,
     handler |-> "", exporter |-> 0, user |-> <<>>, snapshot |-> <<>>,
     status |-> 0, json |-> <<>>, text |-> <<>>, elapsed |-> 0,
     idx |-> 0, earlier |-> {}, before |-> {}, notyet |-> {},
     result |-> <<>>]

\* The value of the total-requests sample in a set of families (0 when the
\* counter has no record yet).
Total(c) == IF NoLabels \in DOMAIN c THEN c[NoLabels] ELSE 0

\* PrometheusExporter::registry().gather(): the families of the registry the
\* exporter e owns; the instruments of METERS live in the registry of the
\* provider they were created from.
Gather(e) ==
    IF meters = e
    THEN [incoming_requests |-> incoming_requests, duration |-> duration,
          status_codes |-> status_codes]
    ELSE [incoming_requests |-> <<>>, duration |-> <<>>, status_codes |-> <<>>]

\* MetricsExporter for PrometheusExporter: export
export(e) == Encode(Gather(e))

\* ServiceMetrics::record as one function of the three instruments.
record(reg, sm) ==
    <<CounterAdd(reg[1], 1, NoLabels),
      ValueRecorderRecord(reg[2], sm.duration_ms, duration_labels(sm)),
      CounterAdd(reg[3], 1, status_code_labels(sm))>>

\* The Info warp::log hands to record_metrics for a completed request.
Info(q) == [status |-> q.status, method |-> q.method, path |-> q.path,
            elapsed |-> q.elapsed]

\* A drop that frees the Mutex without waking the first waiter.
ReleaseLost == guard' = 0 /\ UNCHANGED waiters

\* Dropping the MutexGuard: the Mutex goes to the first waiter, if any.
Release ==
    IF waiters = <<>>
    THEN guard' = 0 /\ UNCHANGED waiters
    ELSE guard' = Head(waiters) /\ waiters' = Tail(waiters)

\* The exports that have rendered their text.
Exported == {r \in Reqs : req[r].handler = "metrics" /\ req[r].status # 0}

Init ==
    /\ users = init_state
    /\ guard = 0
    /\ waiters = <<>>
    /\ provider = 1
    /\ meters = 0
    /\ incoming_requests = <<>>
    /\ duration = <<>>
    /\ status_codes = <<>>
    /\ req = [r \in Reqs |-> IdleReq]

\* ------------------------------------------------------------------------
\* the request pipeline

\* warp accepts a request and runs it through filters::users up to the
\* handler; a rejection completes the request with the rejection's status.
Receive(r) ==
    /\ req[r].pc = "idle"
    /\ IF r = 1 THEN TRUE ELSE req[r - 1].pc # "idle"
    /\ \E m \in Methods, p \in Paths :
        \E b \in BodiesFor(m, p) :
            LET routed == users_filter(m, p, b)
                q == [req[r] EXCEPT !.method = m, !.path = p, !.body = b,
                                    !.handler = routed.handler]
            IN  req' = [req EXCEPT ![r] =
                    IF ~routed.ok
                    THEN [q EXCEPT !.pc = "hook", !.status = routed.status]
                    ELSE IF routed.handler = "list_users"
                    THEN [q EXCEPT !.pc = "l_lock"]
                    ELSE IF routed.handler = "create_user"
                    THEN [q EXCEPT !.pc = "c_lock",
                                   !.user = DeserializeUser(b).user]
                    ELSE [q EXCEPT !.pc = "m_export", !.exporter = provider,
                                   !.earlier = Exported]]
    /\ UNCHANGED <<users, guard, waiters, provider, meters, registry>>

\* A lock that takes the Mutex whether or not it is held.
ListLockBarging(r) ==
    /\ req[r].pc = "l_lock"
    /\ guard' = r
    /\ req' = [req EXCEPT ![r].pc = "l_clone",
                          ![r].before = {c \in Reqs : req[c].idx > 0}]
    /\ UNCHANGED <<users, waiters, provider, meters, registry>>

\* handlers::list_users: state.lock().await
ListLock(r) ==
    /\ req[r].pc = "l_lock"
    /\ IF guard = 0
       THEN /\ guard' = r
            /\ UNCHANGED waiters
            /\ req' = [req EXCEPT ![r].pc = "l_clone",
                    ![r].before = {c \in Reqs : req[c].idx > 0}]
       ELSE /\ waiters' = Append(waiters, r)
            /\ UNCHANGED guard
            /\ req' = [req EXCEPT ![r].pc = "l_wait"]
    /\ UNCHANGED <<users, provider, meters, registry>>

\* handlers::list_users: the suspended lock() future is given the Mutex.
ListWake(r) ==
    /\ req[r].pc = "l_wait"
    /\ guard = r
    /\ req' = [req EXCEPT ![r].pc = "l_clone",
                          ![r].before = {c \in Reqs : req[c].idx > 0}]
    /\ UNCHANGED <<users, guard, waiters, provider, meters, registry>>

\* A copy whose guard is bound to a local and lives on into the reply.
ListCloneHolding(r) ==
    /\ req[r].pc = "l_clone"
    /\ req' = [req EXCEPT ![r].pc = "l_reply", ![r].snapshot = Clone(users),
                          ![r].notyet = {c \in Reqs : req[c].idx = 0}]
    /\ UNCHANGED <<users, guard, waiters, provider, meters, registry>>

\* handlers::list_users: .clone() under the guard; the temporary guard is
\* dropped at the end of the let statement.
ListClone(r) ==
    /\ req[r].pc = "l_clone"
    /\ Release
    /\ req' = [req EXCEPT ![r].pc = "l_reply", ![r].snapshot = Clone(users),
                          ![r].notyet = {c \in Reqs : req[c].idx = 0}]
    /\ UNCHANGED <<users, provider, meters, registry>>

\* A reply that serializes the store as it is now instead of the copy.
ListReplyLive(r) ==
    /\ req[r].pc = "l_reply"
    /\ req' = [req EXCEPT ![r].pc = "hook", ![r].status = 200,
                          ![r].json = [i \in 1 .. Len(users) |->
                                        SerializeUser(users[i])]]
    /\ UNCHANGED <<users, guard, waiters, provider, meters, registry>>

\* handlers::list_users: Ok(warp::reply::json(&users))
ListReply(r) ==
    /\ req[r].pc = "l_reply"
    /\ req' = [req EXCEPT ![r].pc = "hook", ![r].status = 200,
                          ![r].json = [i \in 1 .. Len(req[r].snapshot) |->
                                        SerializeUser(req[r].snapshot[i])]]
    /\ UNCHANGED <<users, guard, waiters, provider, meters, registry>>

\* handlers::create_user: let mut users = state.lock().await
CreateLock(r) ==
    /\ req[r].pc = "c_lock"
    /\ IF guard = 0
       THEN /\ guard' = r
            /\ UNCHANGED waiters
            /\ req' = [req EXCEPT ![r].pc = "c_push"]
       ELSE /\ waiters' = Append(waiters, r)
            /\ UNCHANGED guard
            /\ req' = [req EXCEPT ![r].pc = "c_wait"]
    /\ UNCHANGED <<users, provider, meters, registry>>

\* handlers::create_user: the suspended lock() future is given the Mutex.
CreateWake(r) ==
    /\ req[r].pc = "c_wait"
    /\ guard = r
    /\ req' = [req EXCEPT ![r].pc = "c_push"]
    /\ UNCHANGED <<users, guard, waiters, provider, meters, registry>>

\* handlers::create_user: users.push(user)
CreatePush(r) ==
    /\ req[r].pc = "c_push"
    /\ users' = Push(users, req[r].user)
    /\ req' = [req EXCEPT ![r].pc = "c_ret", ![r].idx = Len(users')]
    /\ UNCHANGED <<guard, waiters, provider, meters, registry>>

\* handlers::create_user: Ok(StatusCode::CREATED), the guard dropped on return.
CreateReturn(r) ==
    /\ req[r].pc = "c_ret"
    /\ Release
    /\ req' = [req EXCEPT ![r].pc = "c_reply"]
    /\ UNCHANGED <<users, provider, meters, registry>>

\* The reply of create_user becomes the response: 201, empty body.
CreateReply(r) ==
    /\ req[r].pc = "c_reply"
    /\ req' = [req EXCEPT ![r].pc = "hook", ![r].status = 201]
    /\ UNCHANGED <<users, guard, waiters, provider, meters, registry>>

\* An export that reads the instruments and resets them (a delta export).
MetricsExportDelta(r) ==
    /\ req[r].pc = "m_export"
    /\ req' = [req EXCEPT ![r].pc = "hook", ![r].status = 200,
                          ![r].text = export(req[r].exporter)]
    /\ incoming_requests' = <<>>
    /\ duration' = <<>>
    /\ status_codes' = <<>>
    /\ UNCHANGED <<users, guard, waiters, provider, meters>>

\* handlers::metrics: let buf = exporter.export(); Ok(buf)
MetricsExport(r) ==
    /\ req[r].pc = "m_export"
    /\ req' = [req EXCEPT ![r].pc = "hook", ![r].status = 200,
                          ![r].text = export(req[r].exporter)]
    /\ UNCHANGED <<users, guard, waiters, provider, meters, registry>>

\* A check against the route's segment, which no request path equals.
is_metrics_segment(p) == p = "metrics"

\* record_metrics: info.path() == "/metrics"
is_metrics_path(p) == p = "/metrics"

\* record_metrics up to and including METERS.incoming_requests.add(1, &[]):
\* the /metrics check, the conversion of the Info, the first use of METERS.
RecordMetrics(r) ==
    /\ req[r].pc = "hook"
    /\ \E e \in Elapsed :
        LET q == [req[r] EXCEPT !.elapsed = e]
        IN  IF is_metrics_path(q.path) \/ ~try_from(Info(q)).ok
            THEN /\ req' = [req EXCEPT ![r].pc = "done"]
                 /\ UNCHANGED <<meters, registry>>
            ELSE /\ req' = [req EXCEPT ![r] = [q EXCEPT !.pc = "rec_duration"]]
                 /\ meters' = IF meters = 0 THEN provider ELSE meters
                 /\ incoming_requests' = CounterAdd(incoming_requests, 1, NoLabels)
                 /\ UNCHANGED <<duration, status_codes>>
    /\ UNCHANGED <<users, guard, waiters, provider>>

\* ServiceMetrics::record: METERS.duration.record(duration_ms, labels)
RecordDuration(r) ==
    /\ req[r].pc = "rec_duration"
    /\ LET sm == try_from(Info(req[r]))
       IN  duration' = ValueRecorderRecord(duration, sm.duration_ms,
                                           duration_labels(sm))
    /\ req' = [req EXCEPT ![r].pc = "rec_status"]
    /\ UNCHANGED <<users, guard, waiters, provider, meters, incoming_requests,
                   status_codes>>

\* A record that returns without the status_codes update.
RecordStatusDropped(r) ==
    /\ req[r].pc = "rec_status"
    /\ req' = [req EXCEPT ![r].pc = "done"]
    /\ UNCHANGED <<users, guard, waiters, provider, meters, registry>>

\* ServiceMetrics::record: METERS.status_codes.add(1, labels)
RecordStatus(r) ==
    /\ req[r].pc = "rec_status"
    /\ LET sm == try_from(Info(req[r]))
       IN  status_codes' = CounterAdd(status_codes, 1, status_code_labels(sm))
    /\ req' = [req EXCEPT ![r].pc = "done"]
    /\ UNCHANGED <<users, guard, waiters, provider, meters, incoming_requests,
                   duration>>

Next ==
    \E r \in Reqs :
        \/ Receive(r)
        \/ ListLock(r)
        \/ ListWake(r)
        \/ ListClone(r)
        \/ ListReply(r)
        \/ CreateLock(r)
        \/ CreateWake(r)
        \/ CreatePush(r)
        \/ CreateReturn(r)
        \/ CreateReply(r)
        \/ MetricsExport(r)
        \/ RecordMetrics(r)
        \/ RecordDuration(r)
        \/ RecordStatus(r)

Spec == Init /\ [][Next]_vars

\* The steps of an accepted request: its task on the tokio runtime.
Run(r) ==
    \/ ListLock(r)
    \/ ListWake(r)
    \/ ListClone(r)
    \/ ListReply(r)
    \/ CreateLock(r)
    \/ CreateWake(r)
    \/ CreatePush(r)
    \/ CreateReturn(r)
    \/ CreateReply(r)
    \/ MetricsExport(r)
    \/ RecordMetrics(r)
    \/ RecordDuration(r)
    \/ RecordStatus(r)

\* One request per route and a rejected one: a list, a create, an export
\* and a request to an unmapped path.
CoreInputs ==
    {<<"GET", "/users", NoBody>>, <<"POST", "/users", JaneBody>>,
     <<"GET", "/metrics", NoBody>>, <<"GET", "/widgets", NoBody>>}

\* filters::users accepting one of the requests of CoreInputs.
ReceiveCore(r) ==
    /\ Receive(r)
    /\ <<req'[r].method, req'[r].path, req'[r].body>> \in CoreInputs

NextCore == \E r \in Reqs : ReceiveCore(r) \/ Run(r)

\* #[tokio::main]: the runtime does not idle while a task is ready, and the
\* handlers and the hook run straight through between their await points.
FairSpec == Init /\ [][NextCore]_vars /\ WF_vars(\E r \in Reqs : Run(r))

\* Final statuses an Info can carry (http::StatusCode holds 100..999); the
\* routes of this service end in 200, 201, 400, 404, 405 or 413 only.
HookStatuses == {200, 599, 600}

\* warp::log::custom(record_metrics): the hook is handed the Info of a request
\* that completed with any method, path and status.
Complete(r) ==
    /\ req[r].pc = "idle"
    /\ IF r = 1 THEN TRUE ELSE req[r - 1].pc # "idle"
    /\ \E m \in Methods, p \in Paths, s \in HookStatuses :
        req' = [req EXCEPT ![r] = [@ EXCEPT !.pc = "hook", !.method = m,
                                             !.path = p, !.status = s,
                                             !.handler = "completed"]]
    /\ UNCHANGED <<users, guard, waiters, provider, meters, registry>>

NextHook ==
    \E r \in Reqs :
        \/ Complete(r)
        \/ RecordMetrics(r)
        \/ RecordDuration(r)
        \/ RecordStatus(r)

\* record_metrics driven with every Info, whatever produced the response.
SpecHook == Init /\ [][NextHook]_vars

\* The Infos the conversion is tried on: the ends of every status bin and
\* the codes next to them, methods and paths next to the recognized ones.
InfoStatuses == {100, 199, 200, 299, 300, 399, 400, 499, 500, 599, 600, 999}

InfoMethods == {"GET", "POST", "DELETE", "get"}

InfoPaths == {"/users", "/users/", "/metrics"}

\* record_metrics: let result: Result<ServiceMetrics, _> = (&info).try_into()
\* on the Info of the last request, kept as the request's result.
Classify(r) ==
    /\ r = MaxReq
    /\ req[r].pc = "idle"
    /\ IF r = 1 THEN TRUE ELSE req[r - 1].pc # "idle"
    /\ \E s \in InfoStatuses, m \in InfoMethods, p \in InfoPaths, e \in Elapsed :
        LET info == [status |-> s, method |-> m, path |-> p, elapsed |-> e]
        IN  req' = [req EXCEPT ![r] = [@ EXCEPT !.pc = "done", !.method = m,
                                                 !.path = p, !.status = s,
                                                 !.elapsed = e,
                                                 !.handler = "try_from",
                                                 !.result = try_from(info)]]
    /\ UNCHANGED <<users, guard, waiters, provider, meters, registry>>

\* The requests before the last one go through the service.
ReceiveEarlier(r) == r < MaxReq /\ ReceiveCore(r)

NextClassify ==
    \E r \in Reqs : ReceiveEarlier(r) \/ Run(r) \/ Classify(r)

\* The conversion applied to an Info while other requests change the store
\* and the instruments.
SpecClassify == Init /\ [][NextClassify]_vars

TypeOK ==
    /\ guard \in 0 .. MaxReq
    /\ meters \in 0 .. provider
    /\ Len(users) <= MaxReq

\* ------------------------------------------------------------------------
\* properties

\* Positions of a request after its handler produced the response.
Replied == {"hook", "rec_duration", "rec_status", "done"}

\* The list requests that hold their copy of the store.
Listed == {r \in Reqs : req[r].handler = "list_users"
                        /\ req[r].pc \in Replied \cup {"l_reply"}}

\* C1: every list result is the store's content at one instant: a prefix of
\* the store as it is now (and so of the final one, the store only growing at
\* its tail), holding every record pushed before the list got the guard, none
\* pushed after it released the guard, and only whole records, each the
\* record some create request sent.
C1_ListIsSnapshot ==
    \A r \in Listed :
        LET s == req[r].snapshot
        IN  /\ Len(s) <= Len(users)
            /\ s = SubSeq(users, 1, Len(s))
            /\ \A c \in req[r].before : req[c].idx <= Len(s)
            /\ \A c \in req[r].notyet : req[c].idx = 0 \/ req[c].idx > Len(s)
            /\ \A i \in 1 .. Len(s) :
                \E c \in Reqs : /\ req[c].idx = i
                                /\ DeserializeUser(req[c].body).ok
                                /\ s[i] = DeserializeUser(req[c].body).user
            /\ req[r].pc \in Replied =>
                req[r].json = [i \in 1 .. Len(s) |-> SerializeUser(s[i])]

\* C1 witness: a list copied the store between two creates of different
\* records: it holds the first and not the second.
C1_Witness ==
    \E r \in Listed :
        /\ Len(req[r].snapshot) = 1
        /\ Len(users) = 2
        /\ users[1] # users[2]
        /\ req[r].before # {}
        /\ \E c \in req[r].notyet : req[c].idx = 2

\* The sum of a counter's values over its label sets.
RECURSIVE SumOver(_, _)
SumOver(f, S) ==
    IF S = {} THEN 0
    ELSE LET k == CHOOSE x \in S : TRUE IN f[k] + SumOver(f, S \ {k})

\* The sum of the _count samples of a rendered histogram family.
RECURSIVE CountOver(_, _)
CountOver(f, S) ==
    IF S = {} THEN 0
    ELSE LET k == CHOOSE x \in S : TRUE IN f[k].count + CountOver(f, S \ {k})

\* C2: in every exported snapshot the three updates of each record call are
\* all applied or all absent: total incoming_requests = sum of the
\* status_codes samples = number of duration observations.
C2_ExportSeesWholeRecords ==
    \A r \in Exported :
        LET t == req[r].text
        IN  /\ Total(t.incoming_requests)
                = SumOver(t.status_codes, DOMAIN t.status_codes)
            /\ Total(t.incoming_requests)
                = CountOver(t.http_server_duration, DOMAIN t.http_server_duration)

\* C3: no step of a request to /metrics changes the registry, whatever its
\* method and status.
C3_MetricsPathNotRecorded ==
    [][\A r \in Reqs :
          (req'[r].path = "/metrics" /\ req'[r] # req[r])
              => (registry' = registry /\ meters' = meters)]_vars

\* C3 witness: a GET /metrics (200) and a POST /metrics (405) completed, and
\* the registry holds exactly the one observation of the third request.
C3_Witness ==
    /\ \E r \in Reqs : /\ req[r].pc = "done" /\ req[r].path = "/metrics"
                       /\ req[r].method = "GET" /\ req[r].status = 200
    /\ \E r \in Reqs : /\ req[r].pc = "done" /\ req[r].path = "/metrics"
                       /\ req[r].method = "POST" /\ req[r].status = 405
    /\ \A r \in Reqs : req[r].pc = "done"
    /\ Total(incoming_requests) = 1
    /\ SumOver(status_codes, DOMAIN status_codes) = 1

\* Classification of a completed request fails: its status is outside
\* 100..599 or its method is neither GET nor POST.
ClassificationFails(q) ==
    \/ q.status < 100
    \/ q.status > 599
    \/ q.method \notin {"GET", "POST"}

\* C4: the hook step of a request whose classification fails ends the
\* request without changing any of the three metrics, and no hook step
\* changes the response.
C4_FailedClassificationSkipped ==
    [][\A r \in Reqs :
          (req[r].pc \in Replied /\ req'[r] # req[r])
              => /\ req'[r].status = req[r].status
                 /\ req'[r].json = req[r].json
                 /\ req'[r].text = req[r].text
                 /\ ClassificationFails(req[r])
                      => (registry' = registry /\ req'[r].pc = "done")]_vars

\* C4 witness: a request with status 600 and a PUT request went through the
\* hook and the registry is still empty.
C4_Witness ==
    /\ \E r \in Reqs : /\ req[r].pc = "done" /\ req[r].status = 600
                       /\ req[r].method = "GET" /\ req[r].path = "/users"
    /\ \E r \in Reqs : /\ req[r].pc = "done" /\ req[r].status = 200
                       /\ req[r].method = "PUT" /\ req[r].path = "/users"
    /\ \E r \in Reqs : req[r].pc = "done" /\ ~ClassificationFails(req[r])
                       /\ req[r].path # "/metrics"
    /\ Total(incoming_requests) = 1

\* The status-family label values.
Families == {"100", "200", "300", "400", "500"}

\* C5: label cardinality is bounded: every label set of status_codes is a
\* (status family, GET or POST) pair, every label set of the duration
\* distribution adds a path label that is "/users" or "invalid", and the
\* total counter has the empty label set only.
C5_LabelsBounded ==
    /\ DOMAIN incoming_requests \subseteq {NoLabels}
    /\ \A k \in DOMAIN status_codes :
        /\ DOMAIN k = {"http_status_code", "http_method"}
        /\ k.http_status_code \in Families
        /\ k.http_method \in {"GET", "POST"}
    /\ \A k \in DOMAIN duration :
        /\ DOMAIN k = {"http_status_code", "http_method", "http_target"}
        /\ k.http_status_code \in Families
        /\ k.http_method \in {"GET", "POST"}
        /\ k.http_target \in {"/users", "invalid"}

\* C5 witness: requests to /widgets and /users were recorded, one of them
\* with a 5xx status, and a PUT went through the hook.
C5_Witness ==
    /\ \A r \in Reqs : req[r].pc = "done"
    /\ \E r \in Reqs : req[r].path = "/widgets" /\ req[r].method = "POST"
                       /\ req[r].status = 599
    /\ \E r \in Reqs : req[r].path = "/users" /\ req[r].method = "GET"
                       /\ req[r].status = 200
    /\ \E r \in Reqs : req[r].method = "PUT"
    /\ \E k \in DOMAIN duration : k.http_target = "invalid"
                                  /\ k.http_status_code = "500"
    /\ Cardinality(DOMAIN duration) = 2

\* C6: the export step changes neither the three instruments nor the user
\* store (nor the guard, the METERS binding or the global provider).
C6_ExportSideEffectFree ==
    [][\A r \in Reqs :
          (req[r].pc = "m_export" /\ req'[r] # req[r])
              => /\ registry' = registry
                 /\ users' = users
                 /\ <<guard, waiters, meters, provider>>'
                      = <<guard, waiters, meters, provider>>]_vars

\* C6 witness: an export rendered a non-empty registry while a record call
\* was between its updates and the store held a record.
C6_Witness ==
    \E r \in Exported, q \in Reqs :
        /\ Total(req[r].text.incoming_requests) = 1
        /\ req[q].pc = "rec_duration"
        /\ Total(incoming_requests) = 1
        /\ Len(users) = 1

\* No counter, bucket count, observation count or sum decreases and no label
\* set disappears in a step.
NoDecrease ==
    /\ Total(incoming_requests') >= Total(incoming_requests)
    /\ DOMAIN incoming_requests \subseteq DOMAIN incoming_requests'
    /\ \A k \in DOMAIN status_codes :
        /\ k \in DOMAIN status_codes'
        /\ status_codes'[k] >= status_codes[k]
    /\ \A k \in DOMAIN duration :
        /\ k \in DOMAIN duration'
        /\ duration'[k].count >= duration[k].count
        /\ duration'[k].sum >= duration[k].sum
        /\ \A i \in DOMAIN duration[k].buckets :
            duration'[k].buckets[i] >= duration[k].buckets[i]

\* An export renders a total at least as large as every export that had
\* completed when it started.
ExportsOrdered ==
    \A b \in Exported : \A a \in req[b].earlier :
        Total(req[b].text.incoming_requests)
            >= Total(req[a].text.incoming_requests)

\* C7: counters are monotonic: no step decreases a counter or a bucket count,
\* and of two exports of which the first completed before the second
\* started, the second renders a total-requests value >= the first's.
C7_CountersMonotonic == [][NoDecrease]_vars /\ []ExportsOrdered

\* C7 witness: an export rendered a larger total than an export that had
\* completed before it started, with a POST /users recorded in between.
C7_Witness ==
    \E b \in Exported : \E a \in req[b].earlier :
        /\ Total(req[a].text.incoming_requests) = 0
        /\ Total(req[b].text.incoming_requests) = 1
        /\ \E c \in Reqs : req[c].method = "POST" /\ req[c].path = "/users"
                           /\ req[c].pc = "rec_duration"

\* The requests whose observation is fully recorded.
Observed ==
    {r \in Reqs : /\ req[r].pc = "done"
                  /\ req[r].path # "/metrics"
                  /\ ~ClassificationFails(req[r])}

\* No record call is between its updates.
Quiescent == \A r \in Reqs : req[r].pc \notin {"rec_duration", "rec_status"}

\* The orders in which the requests of S can be taken.
Orders(S) ==
    {o \in [1 .. Cardinality(S) -> S] :
        \A i, j \in 1 .. Cardinality(S) : i # j => o[i] # o[j]}

\* The registry after recording the observations of the requests o[1..n],
\* one whole record call after the other, starting from the empty registry.
RECURSIVE RecordedInOrder(_, _)
RecordedInOrder(o, n) ==
    IF n = 0 THEN <<<<>>, <<>>, <<>>>>
    ELSE record(RecordedInOrder(o, n - 1), try_from(Info(req[o[n]])))

\* C8: recording is order-independent: whenever no record call is under way,
\* the registry equals the result of recording the observations made so far
\* one after the other in any order whatsoever.
C8_OrderIndependent ==
    Quiescent =>
        \A o \in Orders(Observed) :
            RecordedInOrder(o, Cardinality(Observed)) = registry

\* C8 witness: three observations with the same labels and different
\* durations were recorded.
C8_Witness ==
    /\ Quiescent
    /\ Cardinality(Observed) = 3
    /\ \E k \in DOMAIN duration :
        /\ duration[k].count = 3
        /\ duration[k].buckets[1] >= 1
        /\ duration[k].buckets[Len(Boundaries) + 1] >= 1

\* The hundreds bin of a status code in 100..599, as the label value.
FamilyOf(code) == <<"100", "200", "300", "400", "500">>[code \div 100]

\* The path label of a request path.
PathLabel(p) == IF p = "/users" THEN "/users" ELSE "invalid"

\* A request that must be recorded: not to /metrics, GET or POST, final
\* status in 100..599.
Qualifies(q) == q.path # "/metrics" /\ ~ClassificationFails(q)

\* The label sets a qualifying request must be recorded under.
StatusKey(q) ==
    [http_status_code |-> FamilyOf(q.status), http_method |-> q.method]

DurationKey(q) ==
    [http_status_code |-> FamilyOf(q.status), http_method |-> q.method,
     http_target |-> PathLabel(q.path)]

\* The requests at one of the positions P that must be recorded.
QualifiedAt(P) == {r \in Reqs : req[r].pc \in P /\ Qualifies(req[r])}

\* The sum of a histogram's bucket counts.
RECURSIVE BucketSum(_, _)
BucketSum(h, n) == IF n = 0 THEN 0 ELSE h.buckets[n] + BucketSum(h, n - 1)

\* C9: every completed qualifying request is recorded exactly once: the total
\* counts the qualifying requests past the first update, each status_codes
\* sample counts the finished qualifying requests of its (family, method),
\* each duration histogram holds one observation per qualifying request of
\* its (family, method, path label) past the second update, nothing else is
\* in the registry, and GET /widgets ends in 404 under ("400", GET, "invalid").
C9_RecordedExactlyOnce ==
    /\ Total(incoming_requests)
        = Cardinality(QualifiedAt({"rec_duration", "rec_status", "done"}))
    /\ \A r \in Reqs :
        req[r].pc \in {"rec_duration", "rec_status"} => Qualifies(req[r])
    /\ DOMAIN status_codes = {StatusKey(req[r]) : r \in QualifiedAt({"done"})}
    /\ \A k \in DOMAIN status_codes :
        status_codes[k]
            = Cardinality({r \in QualifiedAt({"done"}) : StatusKey(req[r]) = k})
    /\ DOMAIN duration
        = {DurationKey(req[r]) : r \in QualifiedAt({"rec_status", "done"})}
    /\ \A k \in DOMAIN duration :
        LET n == Cardinality({r \in QualifiedAt({"rec_status", "done"}) :
                                DurationKey(req[r]) = k})
        IN  /\ duration[k].count = n
            /\ BucketSum(duration[k], Len(Boundaries) + 1) = n
    /\ \A r \in Reqs :
        (req[r].pc \in Replied /\ req[r].method = "GET"
            /\ req[r].path = "/widgets")
        => /\ req[r].status = 404
           /\ Qualifies(req[r])
           /\ DurationKey(req[r])
                = [http_status_code |-> "400", http_method |-> "GET",
                   http_target |-> "invalid"]

\* C9 witness: a GET /widgets (404), a GET /users (200) and a POST /users
\* (201) completed; the registry counts three requests, one of them under
\* ("400", GET, "invalid").
C9_Witness ==
    /\ \A r \in Reqs : req[r].pc = "done"
    /\ \E r \in Reqs : req[r].method = "GET" /\ req[r].path = "/widgets"
    /\ \E r \in Reqs : req[r].method = "GET" /\ req[r].path = "/users"
    /\ \E r \in Reqs : req[r].method = "POST" /\ req[r].status = 201
    /\ Total(incoming_requests) = 3
    /\ duration[[http_status_code |-> "400", http_method |-> "GET",
                 http_target |-> "invalid"]].count = 1
    /\ status_codes[[http_status_code |-> "400", http_method |-> "GET"]] = 1

\* A body that is a well-formed User within the size limit.
WellFormedUser(b) ==
    /\ b.wellformed
    /\ b.len <= BodyLimit
    /\ {"id", "lastName", "gender"} \subseteq DOMAIN b.obj
    /\ b.obj.gender \in {"female", "male", "unspecified"}

\* The POST /users requests with a well-formed User body.
WellFormedPosts ==
    {r \in Reqs : /\ req[r].method = "POST" /\ req[r].path = "/users"
                  /\ WellFormedUser(req[r].body)}

\* The push of a create request appends exactly its record at the tail.
PushAppends ==
    \A r \in Reqs :
        (req[r].pc = "c_push" /\ req'[r] # req[r])
            => /\ r \in WellFormedPosts
               /\ users' = Append(users, DeserializeUser(req[r].body).user)

\* The store changes only by growing by one record at its tail.
StoreOnlyGrows ==
    users' # users
        => /\ Len(users') = Len(users) + 1
           /\ SubSeq(users', 1, Len(users)) = users

\* A well-formed POST /users reaches the create handler, and once it has
\* replied the status is 201 and its record is in the store where it was
\* pushed.
PostCreated ==
    \A r \in WellFormedPosts :
        /\ req[r].handler = "create_user"
        /\ req[r].pc \in Replied
            => /\ req[r].status = 201
               /\ req[r].idx \in 1 .. Len(users)
               /\ users[req[r].idx] = DeserializeUser(req[r].body).user

\* C10: a POST /users with a well-formed User body always succeeds with 201
\* and appends exactly that record at the tail: the store grows by one,
\* the stored records keep their values and positions, also when the id is
\* already stored.
C10_CreateAppends ==
    [][PushAppends /\ StoreOnlyGrows]_vars /\ []PostCreated

\* C10 witness: two different records with the same id are stored, the first
\* pushed onto the empty store, and both requests were answered 201.
C10_Witness ==
    /\ Len(users) = 2
    /\ users[1].id = users[2].id
    /\ users[1] # users[2]
    /\ \E a, b \in WellFormedPosts :
        /\ req[a].idx = 1 /\ req[b].idx = 2
        /\ req[a].status = 201 /\ req[b].status = 201

\* The POST /users requests whose body is no well-formed User or is too
\* large.
BadPosts ==
    {r \in Reqs : /\ req[r].method = "POST" /\ req[r].path = "/users"
                  /\ ~WellFormedUser(req[r].body)}

\* A bad POST /users is rejected with a client error and holds no record.
BadPostRejected ==
    \A r \in BadPosts :
        /\ req[r].handler = "rejection"
        /\ req[r].pc \in Replied
        /\ req[r].status >= 400 /\ req[r].status <= 499
        /\ req[r].user = <<>>
        /\ req[r].idx = 0

\* Every stored record is the record of a well-formed POST /users, as sent.
StoredAsSent ==
    \A i \in 1 .. Len(users) :
        \E c \in WellFormedPosts :
            /\ req[c].idx = i
            /\ users[i].id = req[c].body.obj.id
            /\ users[i].last_name = req[c].body.obj.lastName
            /\ GenderTag(users[i].gender) = req[c].body.obj.gender

\* No step of a bad POST /users changes the store.
BadPostKeepsStore ==
    \A r \in Reqs :
        (req'[r] # req[r] /\ req'[r].method = "POST" /\ req'[r].path = "/users"
            /\ ~WellFormedUser(req'[r].body))
        => users' = users

\* C11: a POST /users whose body does not deserialize to a User or exceeds
\* 16 KiB never reaches the create handler: it is answered with a client
\* error, no step of it changes the store, and nothing but the records of
\* well-formed requests is ever stored.
C11_BadBodyRejected ==
    [][BadPostKeepsStore]_vars /\ [](BadPostRejected /\ StoredAsSent)

\* C11 witness: a body with gender "alien", a malformed body and an oversized
\* body were answered 400, 400 and 413 and the store is empty.
C11_Witness ==
    /\ \E r \in BadPosts : req[r].body = AlienBody /\ req[r].status = 400
                           /\ req[r].pc = "done"
    /\ \E r \in BadPosts : req[r].body = MalformedBody /\ req[r].status = 400
                           /\ req[r].pc = "done"
    /\ \E r \in BadPosts : req[r].body = OversizedBody /\ req[r].status = 413
                           /\ req[r].pc = "done"
    /\ users = <<>>

\* The GET /users requests.
Lists == {r \in Reqs : req[r].method = "GET" /\ req[r].path = "/users"}

\* A list request copies the store as it is at the copy, changes it in no
\* step, and a returned result never changes afterwards.
ListCopies ==
    \A r \in Reqs :
        /\ (req'[r] # req[r] /\ req'[r].method = "GET"
                /\ req'[r].path = "/users")
            => users' = users
        /\ (req[r].pc = "l_clone" /\ req'[r] # req[r])
            => req'[r].snapshot = users
        /\ (r \in Lists /\ req[r].pc \in Replied)
            => (req'[r].json = req[r].json /\ req'[r].status = req[r].status)

\* A GET /users reaches the list handler and is answered 200 with the
\* serialized copy, record by record in the copy's order.
ListAnswered ==
    \A r \in Lists :
        /\ req[r].handler = "list_users"
        /\ req[r].pc \in Replied
            => /\ req[r].status = 200
               /\ Len(req[r].json) = Len(req[r].snapshot)
               /\ \A i \in 1 .. Len(req[r].json) :
                    /\ req[r].json[i].id = req[r].snapshot[i].id
                    /\ req[r].json[i].lastName = req[r].snapshot[i].last_name

\* C12: GET /users always answers 200 with a copy of the store's records in
\* insertion order (the empty array on an empty store), never modifies the
\* store, and the returned sequence is not changed by later appends.
C12_ListReturnsCopy == [][ListCopies]_vars /\ []ListAnswered

\* C12 witness: a list on the empty store returned the empty array, a record
\* was appended after it returned, and a later list returned that record.
C12_Witness ==
    \E a, b \in Lists :
        /\ req[a].pc \in Replied /\ req[a].json = <<>>
        /\ req[b].pc \in Replied /\ Len(req[b].json) = 1
        /\ Len(users) = 1
        /\ req[a].notyet = Reqs

\* At quiescence the three instruments agree with each other and with the
\* number of requests recorded.
AgreeWhenQuiescent ==
    Quiescent =>
        /\ Total(incoming_requests) = SumOver(status_codes, DOMAIN status_codes)
        /\ Total(incoming_requests) = CountOver(duration, DOMAIN duration)
        /\ Total(incoming_requests) = Cardinality(Observed)

\* C13: recording is eventually atomic: whenever every started record call
\* has finished, total incoming_requests = sum of the status_codes counters
\* = number of duration observations = number of recorded requests, and
\* under fair scheduling every started record call finishes.
C13_EventuallyAtomic ==
    /\ []AgreeWhenQuiescent
    /\ \A r \in Reqs :
        (req[r].pc \in {"rec_duration", "rec_status"}) ~> (req[r].pc = "done")

\* C13 witness: two requests were recorded, an export saw one of them half
\* recorded, and the registry is quiescent with both in each instrument.
C13_Witness ==
    /\ Quiescent
    /\ Cardinality(Observed) = 2
    /\ Total(incoming_requests) = 2
    /\ \E e \in Exported :
        /\ Total(req[e].text.incoming_requests) = 1
        /\ req[e].text.status_codes = <<>>

\* Positions at which a request is inside the store's critical section.
InCritical == {"l_clone", "c_push", "c_ret"}

\* The requests inside the critical section.
Critical == {r \in Reqs : req[r].pc \in InCritical}

\* C14: mutual exclusion on the store: at most one request is inside the
\* critical section, and it is the one the Mutex is held by.
C14_MutualExclusion ==
    /\ Cardinality(Critical) <= 1
    /\ \A r \in Critical : guard = r

\* C14 witness: a create is between lock and push while a list and another
\* create wait for the Mutex.
C14_Witness ==
    \E c \in Reqs :
        /\ req[c].pc = "c_push"
        /\ Len(waiters) = 2
        /\ \E l \in Reqs : req[l].pc = "l_wait"
        /\ \E d \in Reqs : req[d].pc = "c_wait"

\* Positions at which a request serializes or has its response, runs the
\* metrics hook, or runs the metrics handler.
OutsideStore ==
    {"idle", "l_reply", "c_reply", "m_export", "hook", "rec_duration",
     "rec_status", "done"}

\* C15: the guard is held only for the copy or the append: a request that
\* serializes, has produced its response or runs the hook neither holds the
\* Mutex nor waits for it, and the holder has no response yet; the list has
\* its copy and the create has pushed when they let go of the Mutex.
C15_GuardOnlyForCopyOrAppend ==
    \A r \in Reqs :
        /\ req[r].pc \in OutsideStore => (guard # r /\ \A i \in DOMAIN waiters :
                                                        waiters[i] # r)
        /\ guard = r => (req[r].status = 0 /\ req[r].json = <<>>)
        /\ (req[r].pc = "c_reply" \/ req[r].status = 201) => req[r].idx > 0
        /\ req[r].pc = "l_reply" => req[r].notyet # {}

\* C15 witness: a list serializes a copy holding a record while another
\* request already holds the Mutex, and a create that let go of the Mutex
\* has no response yet.
C15_Witness ==
    \E l, c \in Reqs :
        /\ req[l].pc = "l_reply" /\ Len(req[l].snapshot) = 1
        /\ guard # 0 /\ guard # l
        /\ req[c].pc = "c_reply" /\ req[c].status = 0

\* The requests that were received and have not finished.
Pending == {r \in Reqs : req[r].pc \notin {"idle", "done"}}

\* The requests suspended on the Mutex: queued and not handed the guard.
Blocked == {r \in Pending : req[r].pc \in {"l_wait", "c_wait"} /\ guard # r}

\* Some pending request can take a step whenever there is a pending request.
NotAllBlocked == Pending # {} => Blocked # Pending

\* A request went through the store and has its response.
Served(r) ==
    /\ req[r].pc = "done"
    /\ guard # r
    /\ \/ req[r].handler = "list_users" /\ req[r].status = 200
       \/ req[r].handler = "create_user" /\ req[r].status = 201 /\ req[r].idx > 0

\* C16: under fair scheduling every request that asks for the Mutex, waiting
\* or not, gets it, lets go of it and finishes with its response, and in no
\* state are all pending requests suspended on the Mutex.
C16_NoDeadlockNoStarvation ==
    /\ []NotAllBlocked
    /\ \A r \in Reqs :
        (req[r].pc \in {"l_lock", "l_wait", "c_lock", "c_wait"}) ~> Served(r)

\* C16 witness: a request that waited has been handed the Mutex and has not
\* resumed yet, while another one is still queued behind it.
C16_Witness ==
    \E r, q \in Reqs :
        /\ req[r].pc \in {"l_wait", "c_wait"} /\ guard = r
        /\ req[q].pc \in {"l_wait", "c_wait"} /\ waiters = <<q>>

\* The requests whose Info went through the conversion.
Classified == {r \in Reqs : req[r].handler = "try_from"}

\* What the conversion must yield for an Info: a function of the Info alone.
Classification(q) ==
    IF ClassificationFails(q)
    THEN [ok |-> FALSE]
    ELSE [ok |-> TRUE,
          duration_ms |-> as_millis(q.elapsed),
          status_family |-> FamilyOf(q.status),
          method |-> q.method,
          path |-> PathLabel(q.path)]

\* C17: the conversion yields for every Info either an observation or a
\* failure, fixed by the Info alone whatever the store and the instruments
\* hold: it fails exactly when the status is outside 100..599 or the method
\* is neither GET nor POST, and otherwise the family is the hundreds bin of
\* the status, the method is the Info's, and the path is "/users" for
\* exactly /users and "invalid" for any other path.
C17_ClassifyTotalDeterministic ==
    \A r \in Classified :
        LET q == req[r]
            want == Classification(q)
        IN  /\ q.result # <<>>
            /\ q.result.ok = want.ok
            /\ q.result.ok => q.result = want
            /\ ~q.result.ok =>
                   q.result.err \in {"unknown status code", "unknown http method"}

\* C17 witness: an Info with status 599, POST and a path next to /users is
\* converted to ("500", POST, "invalid") while the store holds a record and
\* the instruments hold observations.
C17_Witness ==
    \E r \in Classified :
        /\ req[r].status = 599 /\ req[r].method = "POST"
        /\ req[r].path = "/users/"
        /\ req[r].result.ok
        /\ req[r].result.status_family = "500"
        /\ req[r].result.path = "invalid"
        /\ users # <<>>
        /\ Total(incoming_requests) > 0

\* The requests whose duration was recorded under the label set k.
DurationRecorded(k) ==
    {r \in QualifiedAt({"rec_status", "done"}) : DurationKey(req[r]) = k}

\* The bucket boundaries read as 5ms .. 10s, in milliseconds.
BoundaryMillis(i) == Boundaries[i]

\* C18: with the boundaries 5ms, 10ms, 25ms, 50ms, 100ms, 250ms, 500ms, 1s,
\* 2.5s, 5s, 10s, a recorded request that took e milliseconds is counted in
\* exactly the buckets whose boundary is at least e milliseconds: every
\* rendered bucket holds the recorded requests of its label set that took no
\* longer than its boundary, and the overflow bucket holds all of them.
C18_BucketsInMilliseconds ==
    \A k \in DOMAIN duration :
        LET h == EncodeHistogram(duration[k])
        IN  /\ \A i \in 1 .. Len(Boundaries) :
                h.bucket[i] =
                    Cardinality({r \in DurationRecorded(k) :
                                    as_millis(req[r].elapsed) <= BoundaryMillis(i)})
            /\ h.bucket[Len(Boundaries) + 1] = Cardinality(DurationRecorded(k))

\* ------------------------------------------------------------------------
\* several exporters in one process

\* The number of exporters constructed in the process.
MaxExporters == 2

\* observability::init_metrics_exporter() called once more, as each test
\* does: try_init() builds an exporter with a registry of its own and makes
\* its meter provider the global one; METERS keeps the instruments it has.
InitExporter ==
    /\ provider < MaxExporters
    /\ provider' = provider + 1
    /\ UNCHANGED <<users, guard, waiters, meters, registry, req>>

\* A request to the users routes or to an unknown route, on any pipeline.
ReceiveUsers(r) == ReceiveCore(r) /\ req'[r].path # "/metrics"

\* GET /metrics on the pipeline filters::users(state, e) built around the
\* exporter e: with_exporter injects e into handlers::metrics. The request
\* remembers the observations recorded in full before it arrived.
ReceiveMetricsOn(r) ==
    /\ req[r].pc = "idle"
    /\ IF r = 1 THEN TRUE ELSE req[r - 1].pc # "idle"
    /\ \E e \in 1 .. provider :
        req' = [req EXCEPT ![r] = [@ EXCEPT !.method = "GET",
                                             !.path = "/metrics",
                                             !.handler = "metrics",
                                             !.pc = "m_export",
                                             !.exporter = e,
                                             !.earlier = Exported,
                                             !.before = Observed]]
    /\ UNCHANGED <<users, guard, waiters, provider, meters, registry>>

NextPipelines ==
    \/ InitExporter
    \/ \E r \in Reqs : ReceiveUsers(r) \/ ReceiveMetricsOn(r) \/ Run(r)

\* The service with one pipeline per constructed exporter.
SpecPipelines == Init /\ [][NextPipelines]_vars

\* The number of requests of S recorded under the status_codes label set k.
StatusCountIn(S, k) == Cardinality({c \in S : StatusKey(req[c]) = k})

\* The number of requests of S recorded under the duration label set k.
DurationCountIn(S, k) == Cardinality({c \in S : DurationKey(req[c]) = k})

\* C19: an export through the exporter of any pipeline renders every
\* observation whose record call completed before the export started (here:
\* before the metrics request arrived), however many exporters and pipelines
\* were constructed: the rendered total, status_codes samples and duration
\* counts cover those observations.
C19_ExportOnEveryPipeline ==
    \A r \in Exported :
        LET t == req[r].text
            B == req[r].before
        IN  /\ Total(t.incoming_requests) >= Cardinality(B)
            /\ \A c \in B :
                /\ StatusKey(req[c]) \in DOMAIN t.status_codes
                /\ t.status_codes[StatusKey(req[c])]
                       >= StatusCountIn(B, StatusKey(req[c]))
                /\ DurationKey(req[c]) \in DOMAIN t.http_server_duration
                /\ t.http_server_duration[DurationKey(req[c])].count
                       >= DurationCountIn(B, DurationKey(req[c]))

=============================================================================
